---- MODULE Spec2Model ----
(***************************************************************************)
(* Policy building (PolicyDefinition.get_template and its helpers) and the *)
(* parse command (_parser_callback, parse, parse_csar,                     *)
(* parse_service_template) of opera_tosca_parser.                          *)
(*                                                                         *)
(* Python dicts keep insertion order, so every dict is a sequence of       *)
(* entries with distinct keys; an exception is a value [ok |-> FALSE, ...] *)
(* that every caller passes on unchanged.                                  *)
(***************************************************************************)
EXTENDS Integers, Sequences, FiniteSets, TLC

VARIABLES
    nodes,                 \* get_template's nodes: the document's Node objects, in document order
    service_ast,           \* the names each section of the loaded document defines
    policy,                \* the PolicyDefinition (self) with its resolved PolicyType
    pc,                    \* position inside get_template / _parser_callback
    targets,               \* get_template's local targets (collect_targets' result)
    collected_properties,  \* self.collected_properties
    resolved_targets,      \* resolve_targets' result
    definitions,           \* collect_triggers' merged trigger definitions
    triggers,              \* collect_triggers' triggers dict, as built so far
    targeted_nodes,        \* the targeted_nodes of every activity of the trigger built last
    error,                 \* the exception that ended get_template, if any
    cli,                   \* the parse command: arguments, environment, output, exit code
    norm                   \* a normalize call: the class, the YAML node, what it gave

vars == <<nodes, service_ast, policy, pc, targets, collected_properties,
          resolved_targets, definitions, triggers, targeted_nodes, error, cli, norm>>

---------------------------------------------------------------------------
(* Bounds and the universe the inputs are drawn from.                      *)

MaxNodes == 2

NodeNameSeq == <<"n1", "n2", "n3", "n4">>

None == "<None>"

\* node.types: the most derived type first, then its ancestors (TA derives from TB)
TypeLists == {<<"TA", "TB">>, <<"TB">>}

IfaceOptions ==
    { <<>>,
      << [name |-> "Other", operations |-> <<"start">>],
         [name |-> "Standard", operations |-> <<"delete", "create">>] >> }

NodeOptions(i) ==
    { [name |-> NodeNameSeq[i], types |-> t, interfaces |-> f] :
        t \in TypeLists, f \in IfaceOptions }

Docs ==
    UNION { { d \in [1..n -> UNION {NodeOptions(i) : i \in 1..n}] :
                \A i \in 1..n : d[i] \in NodeOptions(i) } : n \in 0..MaxNodes }

AstOf(doc) ==
    [ node_templates |-> {doc[i].name : i \in 1..Len(doc)},
      groups         |-> {"g1"},
      node_types     |-> {"TA", "TB"},
      group_types    |-> {} ]

---------------------------------------------------------------------------
(* Results and exceptions.                                                 *)

Ok(v) == [ok |-> TRUE, val |-> v]

Raise(kind, what, name) ==
    [ok |-> FALSE, err |-> [kind |-> kind, what |-> what, name |-> name]]

\* self.abort(msg, self.loc): a ParseError, which carries the location
Abort(what, name) == Raise("ParseError", what, name)

NoError == [kind |-> "none", what |-> "", name |-> ""]

---------------------------------------------------------------------------
(* Ordered dicts.                                                          *)

Keys(d) == {d[i].k : i \in 1..Len(d)}

KeySeq(d) == [i \in 1..Len(d) |-> d[i].k]

Index(d, key) == CHOOSE i \in 1..Len(d) : d[i].k = key

Get(d, key) == d[Index(d, key)].v

\* d[key] = v: a present key keeps its place, a new key goes last
Put(d, key, v) ==
    IF key \in Keys(d)
    THEN [i \in 1..Len(d) |-> IF d[i].k = key THEN [k |-> key, v |-> v] ELSE d[i]]
    ELSE Append(d, [k |-> key, v |-> v])

\* d.pop(key)
Pop(d, key) == SelectSeq(d, LAMBDA e : e.k # key)

RECURSIVE Update(_, _)
\* d.update(other)
Update(d, other) ==
    IF other = <<>> THEN d
    ELSE Update(Put(d, Head(other).k, Head(other).v), Tail(other))

RECURSIVE DictOfRefs(_, _)
\* {target.data: target for target in refs}
DictOfRefs(refs, acc) ==
    IF refs = <<>> THEN acc
    ELSE DictOfRefs(Tail(refs), Put(acc, Head(refs).data, Head(refs)))

---------------------------------------------------------------------------
(* References.                                                             *)

\* targets=List(ReferenceXOR(("topology_template", "node_templates"),
\*                           ("topology_template", "groups")))
PolicyTargetRef(name) == [data |-> name, paths |-> <<"node_templates", "groups">>]

\* the policy type's targets name node types or group types
TypeTargetRef(name) == [data |-> name, paths |-> <<"node_types", "group_types">>]

RECURSIVE ResolveIn(_, _, _)
ResolveIn(paths, name, ast) ==
    IF paths = <<>> THEN Abort("unresolved reference", name)
    ELSE IF name \in ast[Head(paths)]
         THEN Ok([section |-> Head(paths), name |-> name])
         ELSE ResolveIn(Tail(paths), name, ast)

\* ref.resolve_reference(service_ast)
resolve_reference(ref, ast) == ResolveIn(ref.paths, ref.data, ast)

---------------------------------------------------------------------------
(* Targets.                                                                *)

collect_target_definitions(typ) == DictOfRefs(typ.targets, <<>>)

\* definitions.update(assignments): the type's targets merged with the policy's
SurvivingTargets_merged(defs, assignments) == Update(defs, assignments)

\* if len(assignments) > 0: definitions = assignments
SurvivingTargets(defs, assignments) ==
    IF Len(assignments) > 0 THEN assignments ELSE defs

RECURSIVE ResolveAll(_, _, _, _)
\* {name: (assignments.get(name) or definition).resolve_reference(service_ast) ...}
ResolveAll(defs, assignments, ast, acc) ==
    IF defs = <<>> THEN Ok(acc)
    ELSE LET name == Head(defs).k
             ref  == IF name \in Keys(assignments) THEN Get(assignments, name)
                     ELSE Head(defs).v
             r    == resolve_reference(ref, ast)
         IN  IF r.ok THEN ResolveAll(Tail(defs), assignments, ast, Put(acc, name, r.val))
             ELSE r

collect_targets(self, ast) ==
    LET defs        == collect_target_definitions(self.type)
        assignments == DictOfRefs(self.targets, <<>>)
    IN  ResolveAll(SurvivingTargets(defs, assignments), assignments, ast, <<>>)

\* a match against any type of the node's type list
NodeMatches_anytype(node, name) ==
    node.name = name \/ \E i \in 1..Len(node.types) : node.types[i] = name

\* node_name == target_name or node.types[0] == target_name
NodeMatches(node, name) == node.name = name \/ node.types[1] = name

RECURSIVE ResolveTargetLoop(_, _, _)
ResolveTargetLoop(names, ns, acc) ==
    IF names = <<>> THEN acc
    ELSE LET RECURSIVE Inner(_, _)
             Inner(i, a) ==
                 IF i > Len(ns) THEN a
                 ELSE Inner(i + 1, IF NodeMatches(ns[i], Head(names))
                                   THEN Put(a, ns[i].name, ns[i]) ELSE a)
         IN  ResolveTargetLoop(Tail(names), ns, Inner(1, acc))

resolve_targets(tgts, ns) ==
    IF Len(tgts) > 0 THEN ResolveTargetLoop(KeySeq(tgts), ns, <<>>) ELSE <<>>

---------------------------------------------------------------------------
(* Values and intrinsic functions.                                         *)

Literal(data) == [function |-> None, data |-> data, params |-> <<>>]

Function(name, params) == [function |-> name, data |-> "", params |-> params]

RECURSIVE eval(_, _), get_property(_, _)
\* PolicyDefinition.get_property: host, prop, *rest = params
get_property(params, props) ==
    LET host == params[1]
        prop == params[2]
    IN  IF host # "SELF" THEN Raise("RuntimeError", "unknown host", host)
        ELSE IF prop \in Keys(props) THEN eval(Get(props, prop), props)
        ELSE Raise("RuntimeError", "unknown property", prop)

\* Value(...).eval(self, key): a literal is its payload, a function is called on self
eval(value, props) ==
    IF value.function = None THEN Ok(value.data)
    ELSE IF value.function = "get_property" THEN get_property(value.params, props)
    ELSE Abort("unknown function", value.function)

RECURSIVE EvalInputs(_, _, _)
\* {k: Value(None, True, Value(None, True, v).eval(self, k)) for k, v in inputs.items()}
EvalInputs(items, props, acc) ==
    IF items = <<>> THEN Ok(acc)
    ELSE LET r == eval(Head(items).v, props)
         IN  IF r.ok THEN EvalInputs(Tail(items), props, Put(acc, Head(items).k, r.val))
             ELSE r

\* inputs.items() of the inputs the activity gave: None has no items()
extra_inputs_of(inputs, props) ==
    IF inputs.isNone THEN Raise("AttributeError", "NoneType has no attribute items", "inputs")
    ELSE EvalInputs(inputs.items, props, <<>>)

---------------------------------------------------------------------------
(* Trigger target nodes and trigger actions.                               *)

RECURSIVE FirstMatch(_, _, _)
\* for node_name, node in nodes.items(): if <match>: ...; break
FirstMatch(ns, i, name) ==
    IF i > Len(ns) THEN 0
    ELSE IF NodeMatches(ns[i], name) THEN i
    ELSE FirstMatch(ns, i + 1, name)

RECURSIVE TargetedByPolicy(_, _, _, _)
TargetedByPolicy(ns, i, names, acc) ==
    IF i > Len(ns) THEN acc
    ELSE LET RECURSIVE Inner(_, _)
             Inner(j, a) ==
                 IF j > Len(names) THEN a
                 ELSE Inner(j + 1, IF names[j] \in {ns[i].name, ns[i].types[1]}
                                   THEN Put(a, ns[i].name, ns[i]) ELSE a)
         IN  TargetedByPolicy(ns, i + 1, names, Inner(1, acc))

AsDict(ns) == [i \in 1..Len(ns) |-> [k |-> ns[i].name, v |-> ns[i]]]

\* target_filter is None or the tuple (name, resolved reference)
NoFilter == [present |-> FALSE, name |-> None]

\* the filter's loop without its break: every node the filter matches is taken
collect_trigger_target_nodes_nobreak(target_filter, ns, policy_targets) ==
    IF target_filter.present
    THEN TargetedByPolicy(ns, 1, <<target_filter.name>>, <<>>)
    ELSE IF Len(policy_targets) > 0
    THEN TargetedByPolicy(ns, 1, KeySeq(policy_targets), <<>>)
    ELSE AsDict(ns)

collect_trigger_target_nodes(target_filter, ns, policy_targets) ==
    IF target_filter.present
    THEN LET i == FirstMatch(ns, 1, target_filter.name)
         IN  IF i = 0 THEN <<>> ELSE <<[k |-> ns[i].name, v |-> ns[i]]>>
    ELSE IF Len(policy_targets) > 0
    THEN TargetedByPolicy(ns, 1, KeySeq(policy_targets), <<>>)
    ELSE AsDict(ns)

\* collected_action = None
NoAction ==
    [ interface_name |-> None, operation_name |-> None,
      operation |-> [node |-> None, interface |-> None, name |-> None],
      extra_inputs |-> <<>> ]

ScanStart == [actions_found |-> 0, collected_action |-> NoAction, err |-> NoError]

RECURSIVE ScanOperations(_, _, _, _, _, _, _)
\* the innermost loop: the first matching operation ends it (break)
ScanOperations(node, iface, j, name, inputs, props, st) ==
    IF j > Len(iface.operations) THEN st
    ELSE IF (iface.name \o "." \o iface.operations[j]) = name
    THEN LET extra == extra_inputs_of(inputs, props)
         IN  IF extra.ok
             THEN [ actions_found |-> st.actions_found + 1,
                    collected_action |->
                      [ interface_name |-> iface.name,
                        operation_name |-> iface.operations[j],
                        operation |-> [ node |-> node.name, interface |-> iface.name,
                                        name |-> iface.operations[j] ],
                        extra_inputs |-> extra.val ],
                    err |-> NoError ]
             ELSE [st EXCEPT !.actions_found = @ + 1, !.err = extra.err]
    ELSE ScanOperations(node, iface, j + 1, name, inputs, props, st)

RECURSIVE ScanInterfaces(_, _, _, _, _, _)
ScanInterfaces(node, i, name, inputs, props, st) ==
    IF i > Len(node.interfaces) \/ st.err # NoError THEN st
    ELSE ScanInterfaces(node, i + 1, name, inputs, props,
                        ScanOperations(node, node.interfaces[i], 1, name, inputs, props, st))

RECURSIVE ScanNodes(_, _, _, _, _, _)
ScanNodes(targeted, n, name, inputs, props, st) ==
    IF n > Len(targeted) \/ st.err # NoError THEN st
    ELSE ScanNodes(targeted, n + 1, name, inputs, props,
                   ScanInterfaces(targeted[n].v, 1, name, inputs, props, st))

collect_trigger_action_from_interfaces(targeted, call_operation_name, inputs, props) ==
    LET st == ScanNodes(targeted, 1, call_operation_name, inputs, props, ScanStart)
    IN  IF st.err # NoError THEN [ok |-> FALSE, err |-> st.err]
        ELSE IF st.actions_found = 0
        THEN Abort("call_operation does not belong to any node interface",
                   call_operation_name)
        ELSE Ok(st.collected_action)

EmptyInputs == [isNone |-> FALSE, items |-> <<>>]

\* call_operation_name and inputs as lines 216-235 leave them
CallOperation(activity) ==
    IF activity.type = "str"
    THEN Ok([name |-> activity.operation, inputs |-> EmptyInputs])
    ELSE IF activity.type = "dict"
    THEN Ok([name |-> activity.operation, inputs |-> activity.inputs])
    ELSE Abort("Invalid call operation activity definition type", activity.type)

ActionsStart == [ok |-> TRUE, actions |-> <<>>, targeted |-> <<>>, err |-> NoError]

RECURSIVE ActionLoop(_, _, _, _, _, _)
ActionLoop(acts, target_filter, ns, policy_targets, props, acc) ==
    IF acts = <<>> THEN acc
    ELSE LET activity == Head(acts)
             co       == CallOperation(activity)
             cand     == collect_trigger_target_nodes(target_filter, ns, policy_targets)
             got      == collect_trigger_action_from_interfaces(
                             cand, co.val.name, co.val.inputs, props)
             Fail(e, t) == [acc EXCEPT !.ok = FALSE, !.err = e, !.targeted = t]
         IN  IF activity.key # "call_operation"
             THEN Fail(Abort("Unsupported trigger activity definitions", activity.key).err,
                       acc.targeted)
             ELSE IF ~co.ok THEN Fail(co.err, acc.targeted)
             ELSE IF co.val.name \in {None, ""}
             THEN Fail(Abort("Missing required name for call_operation", "").err,
                       acc.targeted)
             ELSE IF ~got.ok THEN Fail(got.err, Append(acc.targeted, cand))
             ELSE ActionLoop(Tail(acts), target_filter, ns, policy_targets, props,
                             [acc EXCEPT !.actions = Append(@, got.val),
                                         !.targeted = Append(@, cand)])

collect_trigger_actions(definition, target_filter, ns, policy_targets, props) ==
    ActionLoop(definition.action, target_filter, ns, policy_targets, props, ActionsStart)

resolve_event_filter(target_filter, ns) ==
    IF target_filter.present
    THEN LET i == FirstMatch(ns, 1, target_filter.name)
         IN  IF i = 0 THEN None ELSE ns[i].name
    ELSE None

---------------------------------------------------------------------------
(* Triggers.                                                               *)

\* the trigger definitions of the policy type, as typ.collect_definitions returns them
collect_trigger_definitions(typ) == typ.triggers

RECURSIVE PopAll(_, _)
PopAll(d, keys) ==
    IF keys = {} THEN d
    ELSE LET key == CHOOSE x \in keys : TRUE
         IN  PopAll(Pop(d, key), keys \ {key})

\* a merge in which a name the type defines keeps the type's definition
merge_triggers_inherited_wins(defs, assignments) == Update(assignments, defs)

\* duplicates popped from the definitions, then definitions.update(assignments)
merge_triggers(defs, assignments) ==
    Update(PopAll(defs, Keys(assignments) \cap Keys(defs)), assignments)

\* target_filter.node names a node template or a node type
TargetFilterRef(name) == [data |-> name, paths |-> <<"node_templates", "node_types">>]

\* lines 292-300: target_filter as the tuple (name, resolved reference), or None
target_filter_of(definition, ast) ==
    IF ~definition.target_filter.present THEN Ok(NoFilter)
    ELSE IF definition.target_filter.node = None
    THEN Abort("Cannot obtain node from target_filter", "")
    ELSE LET r == resolve_reference(TargetFilterRef(definition.target_filter.node), ast)
         IN  IF r.ok THEN Ok([present |-> TRUE, name |-> definition.target_filter.node])
             ELSE r

\* the check without the guard on policy_targets
filter_mismatch_unguarded(target_filter, policy_targets) ==
    target_filter.present /\ target_filter.name \notin Keys(policy_targets)

\* target_filter and policy_targets and target_filter[0] not in list(policy_targets)
filter_mismatch(target_filter, policy_targets) ==
    /\ target_filter.present
    /\ Len(policy_targets) > 0
    /\ target_filter.name \notin Keys(policy_targets)

NoTargeted == <<>>

\* one pass of the loop of collect_triggers: [ok, trigger, targeted, err]
build_trigger(name, definition, ast, ns, policy_targets, props) ==
    LET tf   == target_filter_of(definition, ast)
        acts == collect_trigger_actions(definition, tf.val, ns, policy_targets, props)
        Fail(e, t) == [ok |-> FALSE, err |-> e, targeted |-> t]
    IN  IF ~tf.ok THEN Fail(tf.err, NoTargeted)
        ELSE IF filter_mismatch(tf.val, policy_targets)
        THEN Fail(Abort("target_filter node should be also present in policy's targets",
                        tf.val.name).err, NoTargeted)
        ELSE IF ~acts.ok THEN Fail(acts.err, acts.targeted)
        ELSE [ ok |-> TRUE,
               val |-> [ name |-> name,
                         event |-> definition.event,
                         target_filter |-> resolve_event_filter(tf.val, ns),
                         action |-> acts.actions ],
               targeted |-> acts.targeted ]

---------------------------------------------------------------------------
(* The policies and documents get_template is run on.                      *)

\* sequences over S of length 0, 1 and 2 (a targets list may repeat a name)
ShortLists(S) == {<<>>} \cup {<<a>> : a \in S} \cup {<<a, b>> : a \in S, b \in S}

Bare(op) ==
    [key |-> "call_operation", type |-> "str", operation |-> op, inputs |-> EmptyInputs]

Extended(op, inputs) ==
    [key |-> "call_operation", type |-> "dict", operation |-> op, inputs |-> inputs]

Inputs(items) == [isNone |-> FALSE, items |-> items]

NoInputs == [isNone |-> TRUE, items |-> <<>>]

Activities ==
    { Bare("Standard.create"),
      Bare("Standard.stop"),
      Extended("Standard.create", Inputs(<<[k |-> "x", v |-> Literal("1")]>>)),
      Extended("Standard.create", NoInputs),
      Extended("Standard.create",
               Inputs(<<[k |-> "x", v |-> Function("get_property", <<"SELF", "p2">>)]>>)),
      Extended("Standard.create",
               Inputs(<<[k |-> "x", v |-> Function("get_property", <<"SELF", "nope">>)]>>)),
      Extended("Standard.create",
               Inputs(<<[k |-> "x", v |-> Function("get_property", <<"HOST", "p1">>)]>>)),
      Extended(None, Inputs(<<>>)),
      [key |-> "call_operation", type |-> "list", operation |-> None, inputs |-> EmptyInputs],
      [key |-> "delegate", type |-> "str", operation |-> "wf", inputs |-> EmptyInputs] }

ActionLists ==
    {<<>>} \cup {<<a>> : a \in Activities}
           \cup {<<Bare("Other.start"), Bare("Standard.create")>>}

FilterDefs ==
    { [present |-> FALSE, node |-> None],
      [present |-> TRUE, node |-> None],
      [present |-> TRUE, node |-> "n1"],
      [present |-> TRUE, node |-> "TA"],
      [present |-> TRUE, node |-> "TB"] }

ExplicitDefs ==
    { [event |-> "explicit", target_filter |-> f, action |-> a] :
        f \in FilterDefs, a \in ActionLists }

InheritedDefs ==
    { [event |-> "inherited", target_filter |-> [present |-> FALSE, node |-> None],
       action |-> <<Bare("Standard.create")>>],
      [event |-> "inherited", target_filter |-> [present |-> TRUE, node |-> "TA"],
       action |-> <<>>] }

InheritedTriggers ==
    {<<>>} \cup { <<[k |-> "t1", v |-> d]>> : d \in InheritedDefs }
           \cup { <<[k |-> "t2", v |-> CHOOSE d \in InheritedDefs : d.action # <<>>]>> }

ExplicitTriggers ==
    {<<>>} \cup { <<[k |-> "t1", v |-> d]>> : d \in ExplicitDefs }

Properties ==
    << [k |-> "p1", v |-> Literal("v1")],
       [k |-> "p2", v |-> Function("get_property", <<"SELF", "p1">>)] >>

TypeTargetRefs(names) == [i \in 1..Len(names) |-> TypeTargetRef(names[i])]

PolicyTargetRefs(names) == [i \in 1..Len(names) |-> PolicyTargetRef(names[i])]

PolicyOf(typeTargets, tgts, typeTriggers, trigs) ==
    [ type       |-> [ targets  |-> TypeTargetRefs(typeTargets),
                       triggers |-> typeTriggers ],
      targets    |-> PolicyTargetRefs(tgts),
      triggers   |-> trigs,
      properties |-> Properties ]

\* policies whose targets vary, with no trigger
TargetPolicies ==
    { PolicyOf(tt, t, <<>>, <<>>) :
        tt \in ShortLists({"TA", "TB"}), t \in ShortLists({"n1", "n2", "g1"}) }

\* policies whose triggers vary, over a few target lists
TriggerPolicies ==
    { PolicyOf(tg[1], tg[2], it, et) :
        tg \in { <<<<>>, <<>>>>, <<<<"TA">>, <<>>>>, <<<<>>, <<"n1">>>>,
                 <<<<"TB">>, <<"n2", "g1">>>> },
        it \in InheritedTriggers, et \in ExplicitTriggers }

---------------------------------------------------------------------------
(* The parse command's arguments and the outcomes of what it calls.        *)

CliIdle ==
    [ inputs_file |-> None, path |-> None, create |-> "ok", validate |-> "ok",
      entrypoint |-> None, load |-> "ok", template |-> "Topology",
      inputs |-> None, parse_started |-> FALSE,
      parse |-> [kind |-> "none", value |-> None],
      out |-> <<>>, exit |-> -1, raised |-> None ]

CliRuns ==
    { [CliIdle EXCEPT !.inputs_file = i, !.path = p, !.create = c, !.validate = v,
                      !.entrypoint = e, !.load = l, !.template = t] :
        i \in {None, "valid", "invalid"},
        p \in {None, "service.yaml", "dir", "zip"},
        c \in {"ok", "OperaToscaParserError"},
        v \in {"ok", "ParseError"},
        e \in {None, "entry.yaml"},
        l \in {"ok", "ParseError"},
        t \in {"Topology", "ParseError", "OperaToscaParserError", "RuntimeError"} }

---------------------------------------------------------------------------
(* YAML nodes and the normalize hook of the constructs with a short form.  *)

NoLoc == "<no loc>"

\* a Node object: id tells one object from another, kind is the Python type of
\* node.value, str the value of a string, items the entries of a mapping
YamlNode(id, kind, str, items, loc) ==
    [id |-> id, kind |-> kind, str |-> str, items |-> items, loc |-> loc]

Scalar(id, kind, text, loc) == YamlNode(id, kind, text, <<>>, loc)

Mapping(id, items, loc) == YamlNode(id, "dict", "", items, loc)

Locs == {"service.yaml:3:5", "service.yaml:12:9"}

Strings == {"", "a", "type", "tosca.capabilities.Compute"}

MappingItems ==
    { <<>>,
      << [k |-> Scalar(2, "str", "type", NoLoc), v |-> Scalar(3, "str", "a", NoLoc)] >>,
      << [k |-> Scalar(2, "str", "implementation", NoLoc),
          v |-> Scalar(3, "str", "a", NoLoc)] >>,
      << [k |-> Scalar(2, "str", "description", NoLoc),
          v |-> Scalar(3, "str", "d", NoLoc)],
         [k |-> Scalar(4, "str", "type", NoLoc), v |-> Scalar(5, "str", "a", NoLoc)] >> }

\* the values of test_invalid_data, and None
OtherValues ==
    { <<"int", "1">>, <<"float", "2.3">>, <<"bool", "True">>, <<"tuple", "()">>,
      <<"list", "[]">>, <<"NoneType", "None">> }

YamlNodes ==
    UNION { {Scalar(1, "str", t, l) : t \in Strings}
              \cup {Mapping(1, m, l) : m \in MappingItems}
              \cup {Scalar(1, o[1], o[2], l) : o \in OtherValues} : l \in Locs }

RECURSIVE MaxOf(_)
MaxOf(ids) ==
    IF ids = {} THEN 0
    ELSE LET i == CHOOSE j \in ids : TRUE
             m == MaxOf(ids \ {i})
         IN  IF i > m THEN i ELSE m

\* the first id that no object reachable from the node has
FreeId(yaml_node) ==
    1 + MaxOf({yaml_node.id}
                \cup {yaml_node.items[i].k.id : i \in DOMAIN yaml_node.items}
                \cup {yaml_node.items[i].v.id : i \in DOMAIN yaml_node.items})

\* a wrapping that files a copy of the node, not the node
Wrapped_copy(key, yaml_node, free) ==
    Mapping(free + 1, <<[k |-> Scalar(free, "str", key, NoLoc),
                        v |-> [yaml_node EXCEPT !.id = free + 2]]>>, NoLoc)

\* Node({Node(key): yaml_node}): two new objects around the node given
Wrapped(key, yaml_node, free) ==
    Mapping(free + 1, <<[k |-> Scalar(free, "str", key, NoLoc), v |-> yaml_node]>>, NoLoc)

\* a normalize that wraps whatever it accepts
CapabilityDefinition_normalize_wraps_all(yaml_node, free) ==
    IF yaml_node.kind \notin {"str", "dict"}
    THEN Raise("ParseError", "Expected string or map.", yaml_node.loc)
    ELSE Ok(Wrapped("type", yaml_node, free))

\* CapabilityDefinition.normalize
CapabilityDefinition_normalize(yaml_node, free) ==
    IF yaml_node.kind \notin {"str", "dict"}
    THEN Raise("ParseError", "Expected string or map.", yaml_node.loc)
    ELSE IF yaml_node.kind = "str" THEN Ok(Wrapped("type", yaml_node, free))
    ELSE Ok(yaml_node)

\* OperationDefinition.normalize, as its unit tests fix it
OperationDefinition_normalize(yaml_node, free) ==
    IF yaml_node.kind \notin {"str", "dict"}
    THEN Raise("ParseError", "Expected string or map.", yaml_node.loc)
    ELSE IF yaml_node.kind = "str" THEN Ok(Wrapped("implementation", yaml_node, free))
    ELSE Ok(yaml_node)

normalize(cls, yaml_node, free) ==
    IF cls = "CapabilityDefinition" THEN CapabilityDefinition_normalize(yaml_node, free)
    ELSE OperationDefinition_normalize(yaml_node, free)

NotRun == [ok |-> FALSE, err |-> NoError]

NormIdle ==
    [cls |-> None, node |-> Scalar(1, "NoneType", "None", NoLoc),
     first |-> NotRun, second |-> NotRun]

NormRuns ==
    { [NormIdle EXCEPT !.cls = c, !.node = n] :
        c \in {"CapabilityDefinition", "OperationDefinition"}, n \in YamlNodes }

---------------------------------------------------------------------------
(* PolicyDefinition.get_template, step by step.                            *)

InitPolicy ==
    /\ \/ nodes \in Docs /\ policy \in TargetPolicies
       \/ nodes \in Docs /\ policy \in TriggerPolicies
    /\ service_ast = AstOf(nodes)
    /\ pc = "collect_targets"
    /\ cli = CliIdle
    /\ norm = NormIdle

InitCli ==
    /\ nodes = <<>>
    /\ policy = PolicyOf(<<>>, <<>>, <<>>, <<>>)
    /\ service_ast = AstOf(<<>>)
    /\ pc = "cli_inputs"
    /\ cli \in CliRuns
    /\ norm = NormIdle

InitNormalize ==
    /\ nodes = <<>>
    /\ policy = PolicyOf(<<>>, <<>>, <<>>, <<>>)
    /\ service_ast = AstOf(<<>>)
    /\ pc = "normalize"
    /\ cli = CliIdle
    /\ norm \in NormRuns

Init ==
    /\ InitPolicy \/ InitCli \/ InitNormalize
    /\ targets = <<>>
    /\ collected_properties = <<>>
    /\ resolved_targets = <<>>
    /\ definitions = <<>>
    /\ triggers = <<>>
    /\ targeted_nodes = NoTargeted
    /\ error = NoError

Inputs_unchanged == UNCHANGED <<nodes, service_ast, policy, cli, norm>>

\* targets = self.collect_targets(service_ast)
CollectTargets ==
    /\ pc = "collect_targets"
    /\ LET r == collect_targets(policy, service_ast)
       IN  IF r.ok
           THEN targets' = r.val /\ pc' = "collect_properties" /\ error' = error
           ELSE targets' = targets /\ pc' = "failed" /\ error' = r.err
    /\ UNCHANGED <<collected_properties, resolved_targets, definitions, triggers,
                   targeted_nodes>>
    /\ Inputs_unchanged

\* self.collected_properties = self.collect_properties(service_ast)
CollectProperties ==
    /\ pc = "collect_properties"
    /\ collected_properties' = policy.properties
    /\ pc' = "resolve_targets"
    /\ UNCHANGED <<targets, resolved_targets, definitions, triggers, targeted_nodes, error>>
    /\ Inputs_unchanged

\* targets=self.resolve_targets(targets, nodes)
ResolveTargets ==
    /\ pc = "resolve_targets"
    /\ resolved_targets' = resolve_targets(targets, nodes)
    /\ pc' = "collect_triggers"
    /\ UNCHANGED <<targets, collected_properties, definitions, triggers, targeted_nodes,
                   error>>
    /\ Inputs_unchanged

\* collect_triggers, lines 277-289
MergeTriggers ==
    /\ pc = "collect_triggers"
    /\ definitions' = merge_triggers(collect_trigger_definitions(policy.type),
                                     policy.triggers)
    /\ pc' = "build_triggers"
    /\ UNCHANGED <<targets, collected_properties, resolved_targets, triggers,
                   targeted_nodes, error>>
    /\ Inputs_unchanged

\* collect_triggers, one pass of the loop of lines 290-318
BuildTrigger ==
    /\ pc = "build_triggers"
    /\ Len(triggers) < Len(definitions)
    /\ LET d == definitions[Len(triggers) + 1]
           r == build_trigger(d.k, d.v, service_ast, nodes, targets, collected_properties)
       IN  /\ targeted_nodes' = r.targeted
           /\ IF r.ok
              THEN triggers' = Put(triggers, d.k, r.val) /\ pc' = pc /\ error' = error
              ELSE triggers' = triggers /\ pc' = "failed" /\ error' = r.err
    /\ UNCHANGED <<targets, collected_properties, resolved_targets, definitions>>
    /\ Inputs_unchanged

\* return triggers; policy = Policy(...); return policy
ReturnPolicy ==
    /\ pc = "build_triggers"
    /\ Len(triggers) = Len(definitions)
    /\ pc' = "done"
    /\ UNCHANGED <<targets, collected_properties, resolved_targets, definitions, triggers,
                   targeted_nodes, error>>
    /\ Inputs_unchanged

---------------------------------------------------------------------------
(* The parse command.                                                      *)

Policy_unchanged ==
    UNCHANGED <<nodes, service_ast, policy, targets, collected_properties,
                resolved_targets, definitions, triggers, targeted_nodes, error, norm>>

Returned(v) == [kind |-> "returned", value |-> v]

Raised(kind) == [kind |-> "raised", value |-> kind]

\* _parser_callback, lines 42-54
LoadInputs ==
    /\ pc = "cli_inputs"
    /\ IF cli.inputs_file = "invalid"
       THEN /\ cli' = [cli EXCEPT !.out = Append(@, "Invalid inputs: <e>"), !.exit = 1]
            /\ pc' = "cli_done"
       ELSE /\ cli' = [cli EXCEPT
                         !.inputs = IF cli.inputs_file = None THEN "{}" ELSE "loaded",
                         !.out = Append(@, "Parsing TOSCA CSAR or service template..."),
                         !.parse_started = TRUE]
            /\ pc' = "parse"
    /\ Policy_unchanged

\* parse: is_zipfile(csar_or_st_path) or Path(csar_or_st_path).is_dir()
Parse ==
    /\ pc = "parse"
    /\ pc' = IF cli.path \in {None, "dir", "zip"} THEN "parse_csar"
             ELSE "parse_service_template"
    /\ UNCHANGED cli
    /\ Policy_unchanged

\* tosca.load(workdir, entrypoint) and then ast.get_template(inputs)
load_and_get_template(c) ==
    IF c.load # "ok" THEN Raised(c.load)
    ELSE IF c.template # "Topology" THEN Raised(c.template)
    ELSE Returned("Topology")

parse_csar(c) ==
    IF c.create # "ok" THEN Raised(c.create)
    ELSE IF c.validate # "ok" THEN Raised(c.validate)
    ELSE IF c.entrypoint # None THEN load_and_get_template(c)
    ELSE Returned(None)

parse_service_template(c) == load_and_get_template(c)

ParseCsar ==
    /\ pc = "parse_csar"
    /\ cli' = [cli EXCEPT !.parse = parse_csar(cli)]
    /\ pc' = "cli_finish"
    /\ Policy_unchanged

ParseServiceTemplate ==
    /\ pc = "parse_service_template"
    /\ cli' = [cli EXCEPT !.parse = parse_service_template(cli)]
    /\ pc' = "cli_finish"
    /\ Policy_unchanged

\* the callback whose handlers print and then fall through to return 0
callback_finish_falls_through(c) ==
    IF c.parse.kind = "returned"
    THEN [c EXCEPT !.out = Append(@, "Done."), !.exit = 0]
    ELSE IF c.parse.value = "ParseError"
    THEN [c EXCEPT !.out = Append(@, "<loc>: <message>"), !.exit = 0]
    ELSE IF c.parse.value = "OperaToscaParserError"
    THEN [c EXCEPT !.out = Append(@, "<message>"), !.exit = 0]
    ELSE [c EXCEPT !.raised = c.parse.value]

\* _parser_callback, lines 56-64
callback_finish(c) ==
    IF c.parse.kind = "returned"
    THEN [c EXCEPT !.out = Append(@, "Done."), !.exit = 0]
    ELSE IF c.parse.value = "ParseError"
    THEN [c EXCEPT !.out = Append(@, "<loc>: <message>"), !.exit = 1]
    ELSE IF c.parse.value = "OperaToscaParserError"
    THEN [c EXCEPT !.out = Append(@, "<message>"), !.exit = 1]
    ELSE [c EXCEPT !.raised = c.parse.value]

Finish ==
    /\ pc = "cli_finish"
    /\ cli' = callback_finish(cli)
    /\ pc' = "cli_done"
    /\ Policy_unchanged

---------------------------------------------------------------------------
(* normalize, applied to a node and then to what it returned.              *)

Normalize_unchanged ==
    UNCHANGED <<nodes, service_ast, policy, targets, collected_properties,
                resolved_targets, definitions, triggers, targeted_nodes, error, cli>>

\* cls.normalize(yaml_node)
Normalize ==
    /\ pc = "normalize"
    /\ LET r == normalize(norm.cls, norm.node, FreeId(norm.node))
       IN  /\ norm' = [norm EXCEPT !.first = r]
           /\ pc' = IF r.ok THEN "normalize_again" ELSE "normalize_done"
    /\ Normalize_unchanged

\* cls.normalize(cls.normalize(yaml_node))
NormalizeAgain ==
    /\ pc = "normalize_again"
    /\ norm' = [norm EXCEPT !.second = normalize(norm.cls, norm.first.val, FreeId(norm.first.val))]
    /\ pc' = "normalize_done"
    /\ Normalize_unchanged

Next ==
    \/ CollectTargets
    \/ CollectProperties
    \/ ResolveTargets
    \/ MergeTriggers
    \/ BuildTrigger
    \/ ReturnPolicy
    \/ LoadInputs
    \/ Parse
    \/ ParseCsar
    \/ ParseServiceTemplate
    \/ Finish
    \/ Normalize
    \/ NormalizeAgain

Spec == Init /\ [][Next]_vars

---------------------------------------------------------------------------
(* Properties of target collection and resolution.                         *)

RefNames(refs) == {refs[i].data : i \in 1..Len(refs)}

NodeNames == {nodes[i].name : i \in 1..Len(nodes)}

NodeNamed(name) == nodes[CHOOSE i \in 1..Len(nodes) : nodes[i].name = name]

\* collect_targets has returned
TargetsCollected ==
    pc \in {"collect_properties", "resolve_targets", "collect_triggers",
            "build_triggers", "done"}

\* resolve_targets has returned
TargetsResolved == pc \in {"collect_triggers", "build_triggers", "done"}

\* C1: with at least one template-level target the collected targets are exactly the
\* template-level ones (nothing the policy type alone declares survives); with none
\* they are exactly the policy type's; each name maps to what its reference resolves
\* to in the document.
C1_CollectedTargets ==
    TargetsCollected =>
        /\ Keys(targets) = IF policy.targets # <<>> THEN RefNames(policy.targets)
                           ELSE RefNames(policy.type.targets)
        /\ policy.targets # <<>> =>
               Keys(targets) \cap (RefNames(policy.type.targets)
                                      \ RefNames(policy.targets)) = {}
        /\ \A i \in 1..Len(targets) :
               /\ targets[i].v.name = targets[i].k
               /\ targets[i].k \in service_ast[targets[i].v.section]
               /\ targets[i].v.section \in
                      IF policy.targets # <<>> THEN {"node_templates", "groups"}
                      ELSE {"node_types", "group_types"}

C1_Witness ==
    /\ pc = "done"
    /\ policy.targets # <<>>
    /\ RefNames(policy.type.targets) \ RefNames(policy.targets) # {}
    /\ Len(targets) = 2

\* C2: a node instance is in the resolved targets, under its template name, exactly
\* when some collected target name equals its template name or the first entry of
\* its type list; later entries of the type list never match.
C2_ResolvedTargets ==
    TargetsResolved =>
        /\ \A i \in 1..Len(nodes) :
               nodes[i].name \in Keys(resolved_targets) <=>
                   \E t \in Keys(targets) : t = nodes[i].name \/ t = nodes[i].types[1]
        /\ \A j \in 1..Len(resolved_targets) :
               /\ resolved_targets[j].k \in NodeNames
               /\ resolved_targets[j].v = NodeNamed(resolved_targets[j].k)

\* a policy whose only target is a node type: an instance of a derived type is left
\* out although the target is an ancestor of its type, another instance is resolved
C2_Witness ==
    /\ pc = "done"
    /\ policy.targets = <<>>
    /\ Keys(targets) = {"TB"}
    /\ Len(resolved_targets) = 1
    /\ \E i \in 1..Len(nodes) :
           /\ nodes[i].types = <<"TA", "TB">>
           /\ nodes[i].name \notin Keys(resolved_targets)

---------------------------------------------------------------------------
(* Properties of the trigger merge.                                        *)

\* the merge of collect_triggers has been done
TriggersMerged == pc \in {"build_triggers", "done"}

\* C3: a trigger name both inherited and assigned is built from the explicit
\* assignment alone; inherited names not assigned are kept, assigned names not
\* inherited are added; the built trigger names are the union of both name sets.
C3_TriggerMerge ==
    TriggersMerged =>
        /\ Keys(definitions) = Keys(policy.type.triggers) \cup Keys(policy.triggers)
        /\ \A x \in Keys(policy.triggers) :
               Get(definitions, x) = Get(policy.triggers, x)
        /\ \A x \in Keys(policy.type.triggers) \ Keys(policy.triggers) :
               Get(definitions, x) = Get(policy.type.triggers, x)
        /\ \A x \in Keys(triggers) :
               /\ x \in Keys(definitions)
               /\ Get(triggers, x).event = Get(definitions, x).event
               /\ Len(Get(triggers, x).action) = Len(Get(definitions, x).action)
        /\ pc = "done" =>
               Keys(triggers) = Keys(policy.type.triggers) \cup Keys(policy.triggers)

C3_Witness ==
    /\ pc = "done"
    /\ "t1" \in Keys(policy.type.triggers) \cap Keys(policy.triggers)
    /\ Get(policy.type.triggers, "t1") # Get(policy.triggers, "t1")
    /\ Get(triggers, "t1").event = "explicit"

---------------------------------------------------------------------------
(* Properties of the trigger loop.                                         *)

\* the loop of collect_triggers raised
FailedInLoop == pc = "failed" /\ Len(triggers) < Len(definitions)

\* the loop of collect_triggers has handled at least one definition
InLoop == FailedInLoop \/ (pc \in {"build_triggers", "done"} /\ Len(triggers) >= 1)

\* the definition the loop handled last
LastDef ==
    IF pc = "failed" THEN definitions[Len(triggers) + 1] ELSE definitions[Len(triggers)]

HasFilterNode(d) == d.target_filter.present /\ d.target_filter.node # None

Resolvable(name) == name \in service_ast.node_templates \cup service_ast.node_types

Matches(i, name) == nodes[i].name = name \/ nodes[i].types[1] = name

\* some node instance of the document is named by the filter
NamesNode(name) == \E i \in 1..Len(nodes) : Matches(i, name)

\* some resolved target of the policy is named by the filter
NamesResolvedTarget(name) ==
    \E j \in 1..Len(resolved_targets) :
        resolved_targets[j].v.name = name \/ resolved_targets[j].v.types[1] = name

MismatchError(name) ==
    [ kind |-> "ParseError",
      what |-> "target_filter node should be also present in policy's targets",
      name |-> name ]

\* C4 as stated: a target_filter.node must name one of the policy's resolved targets;
\* when it does not, building fails with the error naming it; when it does, that
\* error is never raised.
C4_FilterAmongResolvedTargets ==
    /\ \A x \in Keys(triggers) :
           (HasFilterNode(Get(definitions, x))
              /\ NamesNode(Get(definitions, x).target_filter.node)) =>
               NamesResolvedTarget(Get(definitions, x).target_filter.node)
    /\ (FailedInLoop /\ HasFilterNode(LastDef.v)) =>
           LET node == LastDef.v.target_filter.node
           IN  /\ (Resolvable(node) /\ NamesNode(node) /\ ~NamesResolvedTarget(node)) =>
                      error = MismatchError(node)
               /\ NamesResolvedTarget(node) => error # MismatchError(node)

\* C4, amended: when the policy has at least one collected target, a
\* target_filter.node must equal one of the collected target names (the names the
\* targets list in effect gives, not the node instances they resolve to); when it
\* equals none, the trigger fails with a ParseError naming it and no Policy is
\* returned; a name among the collected target names never raises that error, and a
\* policy without targets is not checked at all.
C4_FilterAmongTargetNames ==
    /\ \A x \in Keys(triggers) :
           HasFilterNode(Get(definitions, x)) =>
               \/ Len(targets) = 0
               \/ Get(definitions, x).target_filter.node \in Keys(targets)
    /\ (FailedInLoop /\ HasFilterNode(LastDef.v)) =>
           LET node == LastDef.v.target_filter.node
           IN  /\ (Resolvable(node) /\ Len(targets) > 0 /\ node \notin Keys(targets)) =>
                      error = MismatchError(node)
               /\ (Len(targets) = 0 \/ node \in Keys(targets)) =>
                      error # MismatchError(node)
    /\ (pc = "failed" /\ error.what = MismatchError("").what) =>
           /\ FailedInLoop
           /\ HasFilterNode(LastDef.v)
           /\ error = MismatchError(LastDef.v.target_filter.node)

C4_Witness ==
    /\ FailedInLoop
    /\ Len(targets) > 0
    /\ HasFilterNode(LastDef.v)
    /\ error = MismatchError(LastDef.v.target_filter.node)
    /\ NamesResolvedTarget(LastDef.v.target_filter.node)

FirstMatches(name) ==
    {nodes[i].name : i \in {i \in 1..Len(nodes) :
                               Matches(i, name) /\ \A j \in 1..(i - 1) : ~Matches(j, name)}}

CandidatesAreNodes(cand) ==
    \A n \in 1..Len(cand) : cand[n].k \in NodeNames /\ cand[n].v = NodeNamed(cand[n].k)

\* cases (2) and (3) of the candidate node set
CandidatesWithoutFilter(cand) ==
    IF Len(targets) > 0
    THEN Keys(cand) = {nodes[i].name : i \in {i \in 1..Len(nodes) :
                                               \E t \in Keys(targets) : Matches(i, t)}}
    ELSE KeySeq(cand) = [i \in 1..Len(nodes) |-> nodes[i].name]

\* C5 as stated: with a filter the candidate set is exactly one node, the first in
\* document order whose template name or first type is the filter name; else with
\* targets, every node matching some target; else every node.
C5_ExactlyOneFilteredNode ==
    InLoop =>
        \A k \in 1..Len(targeted_nodes) :
            /\ CandidatesAreNodes(targeted_nodes[k])
            /\ IF LastDef.v.target_filter.present
               THEN /\ Cardinality(Keys(targeted_nodes[k])) = 1
                    /\ Keys(targeted_nodes[k]) = FirstMatches(LastDef.v.target_filter.node)
               ELSE CandidatesWithoutFilter(targeted_nodes[k])

\* C5, amended: with a filter the candidate set is the first node in document order
\* whose template name or first type is the filter name, and is empty when no node
\* matches; the other two cases as stated.
C5_AtMostOneFilteredNode ==
    InLoop =>
        \A k \in 1..Len(targeted_nodes) :
            /\ CandidatesAreNodes(targeted_nodes[k])
            /\ IF LastDef.v.target_filter.present
               THEN /\ Cardinality(Keys(targeted_nodes[k])) <= 1
                    /\ Keys(targeted_nodes[k]) = FirstMatches(LastDef.v.target_filter.node)
               ELSE CandidatesWithoutFilter(targeted_nodes[k])

\* a type filter that two nodes match: the first of them alone is the candidate
C5_Witness ==
    /\ InLoop
    /\ Len(targeted_nodes) >= 1
    /\ LastDef.v.target_filter.present
    /\ Cardinality({i \in 1..Len(nodes) : Matches(i, LastDef.v.target_filter.node)}) = 2
    /\ KeySeq(targeted_nodes[1]) = <<"n1">>

---------------------------------------------------------------------------
(* Properties of trigger action resolution.                                *)

\* the node exposes an interface and an operation that make the dotted name
NodeExposes(node, name) ==
    \E i \in 1..Len(node.interfaces) :
        \E j \in 1..Len(node.interfaces[i].operations) :
            (node.interfaces[i].name \o "." \o node.interfaces[i].operations[j]) = name

Exposes(cand, name) == \E n \in 1..Len(cand) : NodeExposes(cand[n].v, name)

BeforeResolution ==
    { "Unsupported trigger activity definitions",
      "Invalid call operation activity definition type",
      "Missing required name for call_operation" }

InputEvaluation == {"unknown host", "unknown property", "unknown function"}

NoMatchError(name) ==
    [ kind |-> "ParseError",
      what |-> "call_operation does not belong to any node interface",
      name |-> name ]

\* C6: a call_operation "I.O" is resolved exactly when some candidate node exposes
\* interface I with operation O; when none does, building fails with the error
\* naming "I.O" (inputs that fail to evaluate set aside).
C6_ResolvedIffExposed ==
    /\ (InLoop /\ pc # "failed") =>
           \A k \in 1..Len(targeted_nodes) :
               Exposes(targeted_nodes[k], LastDef.v.action[k].operation)
    /\ ( /\ FailedInLoop
         /\ Len(targeted_nodes) >= 1
         /\ error.what \notin BeforeResolution \cup InputEvaluation ) =>
           LET k == Len(targeted_nodes)
               name == LastDef.v.action[k].operation
           IN  /\ ~Exposes(targeted_nodes[k], name)
               /\ error = NoMatchError(name)

FirstExposing(cand, name) ==
    cand[CHOOSE n \in 1..Len(cand) :
             /\ NodeExposes(cand[n].v, name)
             /\ \A m \in 1..(n - 1) : ~NodeExposes(cand[m].v, name)].k

\* C7: with several matches the action returned is the first match in scan order:
\* the operation of the first candidate node, in document order, that exposes it.
C7_FirstMatchWins ==
    (InLoop /\ pc # "failed") =>
        \A k \in 1..Len(targeted_nodes) :
            Get(triggers, LastDef.k).action[k].operation.node =
                FirstExposing(targeted_nodes[k], LastDef.v.action[k].operation)

\* what the bare string with the same operation name gives on the same candidates
BareOutcome(cand, activity) ==
    collect_trigger_action_from_interfaces(
        cand, CallOperation(Bare(activity.operation)).val.name,
        CallOperation(Bare(activity.operation)).val.inputs, collected_properties)

\* C13: an activity in extended form with operation S, with or without inputs,
\* resolves to the interface and operation the bare string S resolves to and fails
\* where the bare string fails (inputs that fail to evaluate set aside); the extra
\* inputs of the action are the evaluated entries of the inputs given, none for
\* the bare form and for an extended form without inputs.
C13_BareExtendedEquivalent ==
    /\ (InLoop /\ pc # "failed") =>
           \A k \in 1..Len(targeted_nodes) :
               LET activity == LastDef.v.action[k]
                   got      == Get(triggers, LastDef.k).action[k]
                   bare     == BareOutcome(targeted_nodes[k], activity)
               IN  /\ bare.ok
                   /\ got.interface_name = bare.val.interface_name
                   /\ got.operation_name = bare.val.operation_name
                   /\ got.operation = bare.val.operation
                   /\ Ok(got.extra_inputs) =
                          EvalInputs(activity.inputs.items, collected_properties, <<>>)
                   /\ activity.type = "str" => got.extra_inputs = <<>>
    /\ ( /\ FailedInLoop
         /\ Len(targeted_nodes) >= 1
         /\ error.what \notin BeforeResolution \cup InputEvaluation ) =>
           LET k    == Len(targeted_nodes)
               bare == BareOutcome(targeted_nodes[k], LastDef.v.action[k])
           IN  /\ ~bare.ok
               /\ bare.err = error

---------------------------------------------------------------------------
(* Properties of function evaluation.                                      *)

\* C10: get_property with a host other than SELF, or with a property the policy
\* has not collected, fails with a ParseError (the error that carries a location and
\* that the parse command catches); with SELF and a known property it gives that
\* property's value.
C10_GetPropertyErrors ==
    /\ (pc = "failed" /\ error.what \in {"unknown host", "unknown property"}) =>
           error.kind = "ParseError"
    /\ \A x \in Keys(triggers) :
           \A k \in 1..Len(Get(triggers, x).action) :
               LET given == Get(definitions, x).action[k].inputs.items
                   extra == Get(triggers, x).action[k].extra_inputs
               IN  \A n \in 1..Len(given) :
                       given[n].v = Function("get_property", <<"SELF", "p2">>) =>
                           Get(extra, given[n].k) = "v1"

---------------------------------------------------------------------------
(* Properties of the parse command.                                        *)

\* C8: parse either returns a Topology or raises; it never returns anything else.
C8_TopologyOrError ==
    cli.parse.kind = "returned" => cli.parse.value = "Topology"

Printed(line) == \E i \in 1..Len(cli.out) : cli.out[i] = line

\* C9: the callback returns 0 exactly when the inputs load and parse completes; it
\* returns 1 when the inputs file is invalid and when parse raises ParseError or
\* OperaToscaParserError, printing the message (after the location for a
\* ParseError) and never "Done."; parse is not started when the inputs fail to load.
C9_ExitCodes ==
    pc = "cli_done" =>
        /\ cli.exit = 0 <=> (cli.inputs_file # "invalid" /\ cli.parse.kind = "returned")
        /\ cli.exit = 0 => cli.out[Len(cli.out)] = "Done."
        /\ cli.inputs_file = "invalid" =>
               /\ cli.exit = 1
               /\ ~cli.parse_started /\ cli.parse.kind = "none"
               /\ cli.out = <<"Invalid inputs: <e>">>
        /\ (cli.parse.kind = "raised" /\ cli.parse.value = "ParseError") =>
               /\ cli.exit = 1
               /\ cli.out[Len(cli.out)] = "<loc>: <message>"
               /\ ~Printed("Done.")
        /\ (cli.parse.kind = "raised" /\ cli.parse.value = "OperaToscaParserError") =>
               /\ cli.exit = 1
               /\ cli.out[Len(cli.out)] = "<message>"
               /\ ~Printed("Done.")
        /\ cli.exit # 0 => ~Printed("Done.")

C9_Witness ==
    /\ pc = "cli_done"
    /\ cli.parse.kind = "raised" /\ cli.parse.value = "ParseError"
    /\ cli.exit = 1
    /\ cli.path = "zip"

---------------------------------------------------------------------------
(* Properties of normalize.                                                *)

\* C11: a bare-string node is normalized to a mapping node with exactly one key,
\* "type" for CapabilityDefinition and "implementation" for OperationDefinition,
\* whose value is the string node itself; a node that is neither a string nor a
\* mapping is rejected with a ParseError at the node's location.
C11_ShortForm ==
    pc \in {"normalize_again", "normalize_done"} =>
        /\ norm.node.kind = "str" =>
               /\ norm.first.ok
               /\ norm.first.val.kind = "dict"
               /\ Len(norm.first.val.items) = 1
               /\ norm.first.val.items[1].k.kind = "str"
               /\ norm.first.val.items[1].k.str =
                      IF norm.cls = "CapabilityDefinition" THEN "type"
                      ELSE "implementation"
               /\ norm.first.val.items[1].v = norm.node
        /\ norm.node.kind \notin {"str", "dict"} =>
               /\ ~norm.first.ok
               /\ norm.first.err.kind = "ParseError"
               /\ norm.first.err.name = norm.node.loc
               /\ pc = "normalize_done"

C11_Witness ==
    /\ pc = "normalize_again"
    /\ norm.cls = "CapabilityDefinition"
    /\ norm.node.kind = "str" /\ norm.node.str = "tosca.capabilities.Compute"
    /\ norm.first.ok /\ norm.first.val.items[1].k.str = "type"

\* C12: where normalize succeeds, normalizing its result succeeds and gives that
\* result again; a node that is already a mapping comes back as the same object.
C12_Idempotent ==
    /\ (pc = "normalize_done" /\ norm.first.ok) =>
           /\ norm.second.ok
           /\ norm.second.val = norm.first.val
    /\ (pc \in {"normalize_again", "normalize_done"} /\ norm.node.kind = "dict") =>
           /\ norm.first.ok
           /\ norm.first.val = norm.node

C12_Witness ==
    /\ pc = "normalize_done"
    /\ norm.cls = "CapabilityDefinition"
    /\ norm.node.kind = "str"
    /\ norm.second.ok
    /\ norm.second.val.id # norm.node.id
    /\ norm.second.val = norm.first.val

====
